---- MODULE Spec2Model ----
(***************************************************************************)
(* video-labeller: the annotation session (labeller.py, LabellerApp), the  *)
(* frame catalog (ImageRepo.py) and the marker store (SQLiteLabelRepo.py). *)
(*                                                                         *)
(* A handler (onkeypress, onclick) runs from its entry to the point where  *)
(* _draw_frame flushes the pending UI events (labeller.py:306); there it   *)
(* is suspended on `stack`, handlers of the events dispatched by the flush *)
(* run nested, and Return runs the rest of the handler.  A handler that    *)
(* raises stops where it raised: matplotlib's callback registry reports    *)
(* the exception and the application goes on with the state left behind.   *)
(***************************************************************************)
EXTENDS Integers, Sequences, FiniteSets, TLC

VARIABLES
    i_kp,        \* LabellerApp.i_kp: index into avail_landmarks
    i_event,     \* LabellerApp.i_event: index into event_names
    i_frame,     \* LabellerApp.i_frame: index into the current event's frames
    i_cam,       \* LabellerApp.i_cam: index into cam_ids
    markers,     \* LabellerApp.markers: the working set (rows of one relative frame)
    is_drawing,  \* LabellerApp.is_drawing: the busy flag of onkeypress
    db,          \* the rows of the markers table
    absent,      \* catalog frames for which image_repo.get_frame returns None
    stack,       \* handlers suspended in _draw_frame's flush_events, innermost last
    outcome,     \* how the last handler step ended, as its caller sees it
    wrap,        \* SpecWrap only: a key applied repeatedly to a cursor
    catalog,     \* ImageRepo.by_subject: the keys its nested dicts hold
    reply,       \* SpecCatalog, SpecEvents: how the last catalog query ended
    sib,         \* SpecSibling: the log FrameLookup indexes and what
                 \* _sibling_frame_objects returned
    tour         \* SpecTour: the cursor at the start and after each commit

vars == <<i_kp, i_event, i_frame, i_cam, markers, is_drawing, db, absent,
          stack, outcome, wrap, catalog, reply, sib, tour>>

(***************************************************************************)
(* Bounds of the model.                                                    *)
(***************************************************************************)
\* landmarks taken from the landmarks table
NLandmarks == 2
\* frames of the longest event of the log
MaxFrames == 2
\* rows the markers table may hold
MaxMarkers == 2
\* handlers in progress at once (nesting through flush_events)
MaxDepth == 2
\* catalog frames that do not resolve
MaxAbsent == 1
\* SpecEvents: events of one (subject, trial) of the log
MaxEvents == 4
\* SpecSibling: absolute frames from one frame of the log to the next
MaxGap == 2

(***************************************************************************)
(* Program constants and session arguments.                                *)
(***************************************************************************)
\* next_point: limit = 1000
limit == 1000
subject_id == "S101"
trial_id == 1
cam_ids == <<"oe", "ot">>
schema_landmarks ==
    <<"RElbow", "LElbow", "RMidFinger", "LMidFinger",
      "RShoulder", "LShoulder", "RWrist", "LWrist">>
\* the click coordinates of the scenario, in whole pixels
Coords == {<<101, 90>>, <<823, 232>>}

(***************************************************************************)
(* The source log read by ImageRepo: rows (event_name, cam_id, rel_frame,  *)
(* frame).  bltd0 comes first in the log and has one frame less than rltd; *)
(* the two events share relative-frame values and their absolute frames    *)
(* are consecutive.  Rows are logged latest frame first.                   *)
(***************************************************************************)
LogEvents == <<"bltd0", "rltd">>

LogFrameCount(e) == IF e = "rltd" THEN MaxFrames ELSE MaxFrames - 1

LogFirstRel(e) == 2 - LogFrameCount(e)

LogFirstAbs(e) == IF e = "rltd" THEN 10 ELSE 10 + MaxFrames

LogRowsOf(e) ==
    [k \in 1..(2 * LogFrameCount(e)) |->
        LET rel == 1 - ((k - 1) \div 2)
        IN [event_name |-> e,
            cam_id     |-> cam_ids[((k - 1) % 2) + 1],
            rel_frame  |-> rel,
            frame      |-> LogFirstAbs(e) + (rel - LogFirstRel(e))]]

CsvRows == LogRowsOf(LogEvents[1]) \o LogRowsOf(LogEvents[2])

(***************************************************************************)
(* ImageRepo                                                               *)
(***************************************************************************)
\* by_subject[subject_id][trial_id][event]: the rows of the event, log order
by_subject(e) == SelectSeq(CsvRows, LAMBDA r : r.event_name = e)

\* by_subject[subject_id][trial_id].keys(): events by first appearance
RECURSIVE KeysOf(_, _)
KeysOf(rows, seen) ==
    IF rows = <<>> THEN seen
    ELSE LET e == Head(rows).event_name
         IN KeysOf(Tail(rows),
                   IF \E k \in 1..Len(seen) : seen[k] = e THEN seen
                   ELSE Append(seen, e))

event_keys == KeysOf(CsvRows, <<>>)

order == <<"rltd", "bltd0", "bltd", "release">>

\* _event_key giving an event outside `order` the first place
event_key_unlisted_first(e) ==
    IF \E k \in 1..Len(order) : order[k] = e
    THEN (CHOOSE k \in 1..Len(order) : order[k] = e) - 1
    ELSE 0

event_key(e) ==
    IF \E k \in 1..Len(order) : order[k] = e
    THEN (CHOOSE k \in 1..Len(order) : order[k] = e) - 1
    ELSE Len(order)

\* sorted(keys, key=_event_key): stable, so equal keys keep their order
RECURSIVE SortedByKey(_, _)
SortedByKey(keys, k) ==
    IF k > Len(order) THEN <<>>
    ELSE SelectSeq(keys, LAMBDA e : event_key(e) = k) \o SortedByKey(keys, k + 1)

get_events == SortedByKey(event_keys, 0)

\* get_rel_frames: the relative frames of the event's first camera, ascending
get_rel_frames(e) ==
    LET frames == by_subject(e)
        cam    == frames[1].cam_id
        mine   == SelectSeq(frames, LAMBDA f : f.cam_id = cam)
    IN SortSeq([k \in 1..Len(mine) |-> mine[k].rel_frame], LAMBDA a, b : a < b)

\* ImageRepo.get_frame: Optional[Frame] as a set, {} for None
get_frame(e, rel) ==
    LET match == SelectSeq(by_subject(e), LAMBDA row : row.rel_frame = rel)
    IN IF match = <<>> THEN {}
       ELSE {[rel_frame      |-> match[Len(match)].rel_frame,
              paths_by_cam   |-> {match[k].cam_id : k \in 1..Len(match)},
              absolute_frame |-> match[Len(match)].frame]}

\* every (event, rel_frame) the log lists
LogFrames == {<<CsvRows[k].event_name, CsvRows[k].rel_frame>> : k \in 1..Len(CsvRows)}

\* The log is read once and never written: the answers of get_rel_frames and
\* get_frame for the session's (subject, trial), tabulated.
rel_frames_table ==
    [e \in {event_keys[k] : k \in 1..Len(event_keys)} |-> get_rel_frames(e)]

frame_table == [p \in LogFrames |-> get_frame(p[1], p[2])]

\* image_repo.get_frame as the session receives it: None for a frame the
\* catalog reports absent, else the Frame built from the log
image_get_frame(e, rel) ==
    IF <<e, rel>> \in absent THEN {}
    ELSE IF <<e, rel>> \in LogFrames THEN frame_table[<<e, rel>>]
    ELSE get_frame(e, rel)

(***************************************************************************)
(* ImageRepo.by_subject as a value.  _read_subject_lookup builds it as     *)
(* nested defaultdicts, subject -> trial -> event -> rows: reading a key   *)
(* that is not there inserts it.  A catalog is the event keys of the log's *)
(* (subject, trial) in log order and the keys held on each level.          *)
(***************************************************************************)
\* the arguments of the catalog queries
SubjectArgs == {subject_id, "S999"}

TrialArgs == {trial_id, trial_id + 1}

EventArgSeq == <<"rltd", "nope">>

RelArgs == {1, 9}

\* _read_subject_lookup: the lookup built from a log of one (subject, trial)
Catalog0(log) ==
    [log      |-> log,
     subjects |-> {subject_id},
     trials   |-> {<<subject_id, trial_id>>},
     events   |-> {<<subject_id, trial_id, log[k]>> : k \in 1..Len(log)}]

\* by_subject[s][t]: the defaultdicts insert s and t
touch_trial(cat, s, t) ==
    [cat EXCEPT !.subjects = @ \cup {s}, !.trials = @ \cup {<<s, t>>}]

\* by_subject[s][t][e]: the defaultdicts insert s, t and e
touch_event(cat, s, t, e) ==
    [cat EXCEPT !.subjects = @ \cup {s}, !.trials = @ \cup {<<s, t>>},
                !.events = @ \cup {<<s, t, e>>}]

\* by_subject[s][t].keys(): the events of the log, then the inserted ones
\* (EventArgSeq has one name outside `order`, so the order of insertion does
\* not show in the sorted keys)
trial_keys(cat, s, t) ==
    (IF s = subject_id /\ t = trial_id THEN cat.log ELSE <<>>)
    \o SelectSeq(EventArgSeq,
                 LAMBDA e : /\ <<s, t, e>> \in cat.events
                            /\ ~(/\ s = subject_id /\ t = trial_id
                                  /\ \E k \in 1..Len(cat.log) : cat.log[k] = e))

\* by_subject[s][t][e]: the rows of the event, [] for an inserted key
trial_rows(cat, s, t, e) ==
    IF /\ s = subject_id /\ t = trial_id
       /\ \E k \in 1..Len(cat.log) : cat.log[k] = e
       /\ \E k \in 1..Len(LogEvents) : LogEvents[k] = e
    THEN by_subject(e) ELSE <<>>

\* ImageRepo.get_events on a catalog
query_get_events(cat, s, t) ==
    IF s \notin cat.subjects
    THEN [err |-> "MissingSubjectException", value |-> <<>>, cat |-> cat]
    ELSE [err |-> "none", value |-> SortedByKey(trial_keys(cat, s, t), 0),
          cat |-> touch_trial(cat, s, t)]

\* ImageRepo.get_all_frames on a catalog, iterated to its end; the value is
\* the events whose frames it yields
query_get_all_frames(cat, s, t) ==
    [err |-> "none", value |-> trial_keys(cat, s, t), cat |-> touch_trial(cat, s, t)]

\* ImageRepo.get_rel_frames on a catalog: frames[0] of an event without rows
\* raises IndexError
query_get_rel_frames(cat, s, t, e) ==
    IF trial_rows(cat, s, t, e) = <<>>
    THEN [err |-> "IndexError", value |-> <<>>, cat |-> touch_event(cat, s, t, e)]
    ELSE [err |-> "none", value |-> get_rel_frames(e), cat |-> touch_event(cat, s, t, e)]

\* ImageRepo.get_frame on a catalog; the value is <<rel_frame>> for a Frame
\* and <<>> for None
query_get_frame(cat, s, t, e, rel) ==
    [err   |-> "none",
     value |-> IF trial_rows(cat, s, t, e) # <<>> /\ get_frame(e, rel) # {}
               THEN <<rel>> ELSE <<>>,
     cat   |-> touch_event(cat, s, t, e)]

(***************************************************************************)
(* SQLiteLabelRepo: the markers table                                      *)
(***************************************************************************)
\* the columns of the UNIQUE constraint of the markers table
UniqueKey(r) ==
    <<r.subject_id, r.trial_id, r.event, r.relative_frame, r.cam_id, r.landmark>>

\* INTEGER PRIMARY KEY: the rowid of a new row is the largest rowid plus one
NewId(rows) ==
    IF rows = {} THEN 1
    ELSE (CHOOSE i \in {r.id : r \in rows} : \A r \in rows : r.id <= i) + 1

\* SQLiteLabelRepo.get_frame: query_select_frame
repo_get_frame(rows, subject, trial, relative_frame) ==
    {r \in rows : /\ r.subject_id = subject
                  /\ r.trial_id = trial
                  /\ r.relative_frame = relative_frame}

\* update_point without the transaction: the row is written although the
\* statement raised
update_point_no_rollback(rows, point_id, x, y, reachable) ==
    [err |-> IF reachable THEN "none" ELSE "OperationalError",
     db  |-> {IF r.id = point_id THEN [r EXCEPT !.x = x, !.y = y] ELSE r :
              r \in rows}]

\* update_point as delete and insert: the row comes back with a new id
update_point_reinsert(rows, point_id, x, y, reachable) ==
    IF ~reachable THEN [err |-> "OperationalError", db |-> rows]
    ELSE [err |-> "none",
          db  |-> {IF r.id = point_id
                   THEN [r EXCEPT !.id = NewId(rows), !.x = x, !.y = y] ELSE r :
                   r \in rows}]

\* SQLiteLabelRepo.update_point: query_update_landmark in a transaction
update_point(rows, point_id, x, y, reachable) ==
    IF ~reachable THEN [err |-> "OperationalError", db |-> rows]
    ELSE [err |-> "none",
          db  |-> {IF r.id = point_id THEN [r EXCEPT !.x = x, !.y = y] ELSE r :
                   r \in rows}]

\* create_point on a markers table without its UNIQUE constraint
create_point_no_unique(rows, subject, trial, event_name, relative_frame, cam_id, landmark, x, y, reachable) ==
    IF ~reachable THEN [err |-> "OperationalError", db |-> rows]
    ELSE [err |-> "none",
          db  |-> rows \cup
                  {[id |-> NewId(rows), subject_id |-> subject, trial_id |-> trial,
                    event |-> event_name, relative_frame |-> relative_frame,
                    cam_id |-> cam_id, landmark |-> landmark, x |-> x, y |-> y]}]

\* SQLiteLabelRepo.create_point: query_insert_landmark in a transaction; the
\* UNIQUE constraint of the table refuses a second row of the same key
create_point(rows, subject, trial, event_name, relative_frame, cam_id, landmark, x, y, reachable) ==
    LET row == [id |-> NewId(rows), subject_id |-> subject, trial_id |-> trial,
                event |-> event_name, relative_frame |-> relative_frame,
                cam_id |-> cam_id, landmark |-> landmark, x |-> x, y |-> y]
    IN IF ~reachable THEN [err |-> "OperationalError", db |-> rows]
       ELSE IF \E r \in rows : UniqueKey(r) = UniqueKey(row)
            THEN [err |-> "IntegrityError", db |-> rows]
            ELSE [err |-> "none", db |-> rows \cup {row}]

\* SQLiteLabelRepo.get_available_landmarks
avail_landmarks == SubSeq(schema_landmarks, 1, NLandmarks)

(***************************************************************************)
(* LabellerApp: the cursor and what is derived from it.  A cursor c is the *)
(* record of the four indices.                                             *)
(***************************************************************************)
event_names == get_events

Cursor == [i_frame |-> i_frame, i_event |-> i_event, i_kp |-> i_kp, i_cam |-> i_cam]

current_event_name(c) == event_names[c.i_event + 1]

current_landmark(c) == avail_landmarks[c.i_kp + 1]

current_cam_id(c) == cam_ids[c.i_cam + 1]

rel_frames(c) == rel_frames_table[current_event_name(c)]

\* _current_rel_frame raises IndexError when i_frame is past the frame list
rel_frame_raises(c) == c.i_frame >= Len(rel_frames(c))

\* _current_rel_frame: rel_frames[i_frame] (where it does not raise)
current_rel_frame(c) == rel_frames(c)[c.i_frame + 1]

\* load_markers: the rows of the current relative frame, or the IndexError
load_markers(c, rows) ==
    IF rel_frame_raises(c) THEN [err |-> "IndexError", markers |-> {}]
    ELSE [err     |-> "none",
          markers |-> repo_get_frame(rows, subject_id, trial_id, current_rel_frame(c))]

\* _get_image_paths, as _draw_frame calls it before it flushes: the frame
\* of the cursor must resolve and hold a path for each camera
get_image_paths(c) ==
    IF rel_frame_raises(c) THEN "IndexError"
    ELSE IF image_get_frame(current_event_name(c), current_rel_frame(c)) = {}
    THEN "AttributeError"
    ELSE IF \E f \in image_get_frame(current_event_name(c), current_rel_frame(c)) :
               \E k \in 1..Len(cam_ids) : cam_ids[k] \notin f.paths_by_cam
    THEN "KeyError"
    ELSE "none"

\* match_landmark without the comparison of the event
match_landmark_no_event(c, other) ==
    /\ other.landmark = current_landmark(c)
    /\ other.cam_id = current_cam_id(c)

match_landmark(c, other) ==
    /\ other.landmark = current_landmark(c)
    /\ other.cam_id = current_cam_id(c)
    /\ other.event = current_event_name(c)

\* _current_landmark_object: Optional[Marker] as a set, the first matching
\* row of the working set or {} for None
current_landmark_object(c, working) ==
    LET matched == {m \in working : match_landmark(c, m)}
    IN {m \in matched : \A o \in matched : m.id <= o.id}

(***************************************************************************)
(* LabellerApp: the advance after a commit                                 *)
(***************************************************************************)
\* _probe_frame returning at its first test whatever the frame index
probe_frame_no_carry(c) ==
    [c EXCEPT !.i_frame = (c.i_frame + 1) % Len(rel_frames(c))]

\* _probe_frame without its last step: the camera stays when the landmark
\* wraps
probe_frame_one_camera(c) ==
    LET n_frames == Len(rel_frames(c))
        f        == (c.i_frame + 1) % n_frames
        n_events == Len(event_names)
        e        == (c.i_event + 1) % n_events
        n_kps    == Len(avail_landmarks)
        kp       == (c.i_kp + 1) % n_kps
    IN IF f > 0 THEN [c EXCEPT !.i_frame = f]
       ELSE IF e > 0 THEN [c EXCEPT !.i_frame = f, !.i_event = e]
       ELSE [c EXCEPT !.i_frame = f, !.i_event = e, !.i_kp = kp]

\* _probe_frame: the candidate after the cursor c
probe_frame(c) ==
    LET n_frames == Len(rel_frames(c))
        f        == (c.i_frame + 1) % n_frames
        n_events == Len(event_names)
        e        == (c.i_event + 1) % n_events
        n_kps    == Len(avail_landmarks)
        kp       == (c.i_kp + 1) % n_kps
        cam      == (c.i_cam + 1) % Len(cam_ids)
    IN IF f > 0 THEN [c EXCEPT !.i_frame = f]
       ELSE IF e > 0 THEN [c EXCEPT !.i_frame = f, !.i_event = e]
       ELSE IF kp > 0 THEN [c EXCEPT !.i_frame = f, !.i_event = e, !.i_kp = kp]
       ELSE [i_frame |-> f, i_event |-> e, i_kp |-> kp, i_cam |-> cam]

\* has_frame: "yes" or "no", or the IndexError of rel_frames[i_frame]
has_frame(ie, if) ==
    LET event_name == event_names[ie + 1]
        frames     == rel_frames_table[event_name]
    IN IF if >= Len(frames) THEN "IndexError"
       ELSE IF image_get_frame(event_name, frames[if + 1]) # {} THEN "yes"
       ELSE "no"

\* next_point assigning the candidate to the cursor before it tests i
next_point_assigns_first(c) ==
    IF has_frame(probe_frame(c).i_event, probe_frame(c).i_frame) = "yes"
    THEN [err |-> "none", cur |-> probe_frame(c), i |-> 1]
    ELSE [err |-> "Exception", cur |-> probe_frame(c), i |-> limit]

\* next_point, the loop: the value of i when the loop is left, every pass
\* getting the answer `hit` of has_frame.  The loop probes _probe_frame() of
\* self and does not assign the candidate to self, so every pass has the
\* same candidate and the same answer: pass 1 breaks, or no pass does.
next_point_loop(hit) == IF hit = "no" THEN limit ELSE 1

\* next_point after `cand, i = the loop`: has_frame raised, or i == limit
\* raises, or the candidate is assigned to the cursor
next_point_assign(c, cand, hit, i) ==
    IF hit = "IndexError" THEN [err |-> "IndexError", cur |-> c, i |-> i]
    ELSE IF i = limit THEN [err |-> "Exception", cur |-> c, i |-> i]
    ELSE [err |-> "none", cur |-> cand, i |-> i]

\* next_point with the candidate of its probes
next_point_probe(c, cand, hit) == next_point_assign(c, cand, hit, next_point_loop(hit))

\* next_point
next_point(c) ==
    next_point_probe(c, probe_frame(c),
                     has_frame(probe_frame(c).i_event, probe_frame(c).i_frame))

(***************************************************************************)
(* FrameLookup and LabellerApp._sibling_frame_objects.  `log` is the rows  *)
(* get_all_frames yields, the events in key order, each with its rows.     *)
(***************************************************************************)
\* FrameLookup.by_frame: the entries of an absolute frame, [] for none
by_frame(log, frame) == SelectSeq(log, LAMBDA row : row.frame = frame)

\* FrameLookup.by_relframe: Optional[int] as a set; the last row of the
\* (rel_frame, event) gave reverse_lookup its value
by_relframe(log, event, rel_frame) ==
    {log[k].frame : k \in {j \in 1..Len(log) :
        /\ log[j].event_name = event
        /\ log[j].rel_frame = rel_frame
        /\ \A i \in (j + 1)..Len(log) :
              ~(log[i].event_name = event /\ log[i].rel_frame = rel_frame)}}

\* the entries scanned for a direction, taking the offset 2 when it has
\* entries, whatever the offset 1 has
sibling_entries_farthest(log, abs_frame, dir) ==
    IF by_frame(log, abs_frame + 2 * dir) # <<>>
    THEN by_frame(log, abs_frame + 2 * dir)
    ELSE by_frame(log, abs_frame + dir)

\* the entries the loop scans for a direction (dir = -1 prev, +1 next):
\* those of offset 1 if the index has any, and found[prefix] is set then;
\* else those of offset 2
sibling_entries(log, abs_frame, dir) ==
    IF by_frame(log, abs_frame + dir) # <<>>
    THEN by_frame(log, abs_frame + dir)
    ELSE by_frame(log, abs_frame + 2 * dir)

\* the rows of an entry's relative frame that pass the camera and landmark
\* tests, without the test of the event
sibling_match_no_event(c, rows, entry) ==
    {m \in repo_get_frame(rows, subject_id, trial_id, entry.rel_frame) :
        /\ m.cam_id = current_cam_id(c)
        /\ m.landmark = current_landmark(c)}

\* the rows of an entry's relative frame that pass the three tests of the
\* inner loop: camera, landmark, event of the entry
sibling_match(c, rows, entry) ==
    {m \in repo_get_frame(rows, subject_id, trial_id, entry.rel_frame) :
        /\ m.cam_id = current_cam_id(c)
        /\ m.landmark = current_landmark(c)
        /\ m.event = entry.event_name}

\* objs[prefix-landmark] after the entries were scanned: the match of the
\* last entry that has one (a later assignment replaces an earlier one;
\* the UNIQUE constraint leaves one match per entry), {} for no key
sibling_objs(c, rows, entries) ==
    UNION {sibling_match(c, rows, entries[k]) :
             k \in {j \in 1..Len(entries) :
                      /\ sibling_match(c, rows, entries[j]) # {}
                      /\ \A i \in (j + 1)..Len(entries) :
                            sibling_match(c, rows, entries[i]) = {}}}

\* _sibling_frame_objects failing with KeyError for a frame the index lacks
sibling_frame_objects_strict(log, c, rows, abs_frame) ==
    IF abs_frame = {} THEN [err |-> "TypeError", prev |-> {}, next |-> {}]
    ELSE IF \E a \in abs_frame : \E d \in {-2, -1, 1, 2} : by_frame(log, a + d) = <<>>
    THEN [err |-> "KeyError", prev |-> {}, next |-> {}]
    ELSE [err  |-> "none",
          prev |-> UNION {sibling_objs(c, rows, sibling_entries(log, a, -1)) :
                            a \in abs_frame},
          next |-> UNION {sibling_objs(c, rows, sibling_entries(log, a, 1)) :
                            a \in abs_frame}]

\* _sibling_frame_objects with abs_frame, the answer of by_relframe: None
\* fails in abs_frame + sibling_frame
sibling_frame_objects_at(log, c, rows, abs_frame) ==
    IF abs_frame = {} THEN [err |-> "TypeError", prev |-> {}, next |-> {}]
    ELSE [err  |-> "none",
          prev |-> UNION {sibling_objs(c, rows, sibling_entries(log, a, -1)) :
                            a \in abs_frame},
          next |-> UNION {sibling_objs(c, rows, sibling_entries(log, a, 1)) :
                            a \in abs_frame}]

\* _sibling_frame_objects: the markers under the keys prev-<landmark> and
\* next-<landmark>, each as a set, {} for a key the dict does not have
sibling_frame_objects(log, c, rows) ==
    IF rel_frame_raises(c) THEN [err |-> "IndexError", prev |-> {}, next |-> {}]
    ELSE sibling_frame_objects_at(log, c, rows,
             by_relframe(log, current_event_name(c), current_rel_frame(c)))

(***************************************************************************)
(* LabellerApp: the handlers, as functions of the state they start in.     *)
(* status "flush" is a handler that reached flush_events in _draw_frame;   *)
(* any other status but "busy" and "ignored" is the exception raised.      *)
(***************************************************************************)
\* _set_marker, the write: update_point for the row of the working set that
\* matches the cursor, else create_point for the position of the cursor
set_marker_write(c, landmark, rows, x, y, reachable) ==
    IF landmark # {}
    THEN update_point(rows, (CHOOSE m \in landmark : TRUE).id, x, y, reachable)
    ELSE IF rel_frame_raises(c) THEN [err |-> "IndexError", db |-> rows]
    ELSE create_point(rows, subject_id, trial_id, current_event_name(c),
                      current_rel_frame(c), current_cam_id(c), current_landmark(c),
                      x, y, reachable)

\* _set_marker after next_point: load_markers and _draw_frame up to the flush
set_marker_reload(working, path, w, np, lm, draw) ==
    IF lm.err # "none"
    THEN [status |-> lm.err, wrote |-> path, cur |-> np.cur,
          markers |-> working, db |-> w.db, probes |-> np.i]
    ELSE [status |-> IF draw # "none" THEN draw ELSE "flush", wrote |-> path,
          cur |-> np.cur, markers |-> lm.markers, db |-> w.db, probes |-> np.i]

\* _set_marker after the write: next_point, then the reload
set_marker_advance(working, path, w, np) ==
    IF np.err # "none"
    THEN [status |-> np.err, wrote |-> path, cur |-> np.cur,
          markers |-> working, db |-> w.db, probes |-> np.i]
    ELSE set_marker_reload(working, path, w, np, load_markers(np.cur, w.db),
                           get_image_paths(np.cur))

\* _set_marker with the outcome w of its write: an exception of the write
\* ends it, else it goes on to the advance
set_marker_written(c, working, path, w) ==
    IF w.err # "none"
    THEN [status |-> w.err, wrote |-> "none", cur |-> c,
          markers |-> working, db |-> w.db, probes |-> 0]
    ELSE set_marker_advance(working, path, w, next_point(c))

\* _set_marker with the row `landmark` of _current_landmark_object
set_marker_landmark(c, working, landmark, rows, x, y, reachable) ==
    set_marker_written(c, working, IF landmark # {} THEN "update" ELSE "insert",
                       set_marker_write(c, landmark, rows, x, y, reachable))

\* _set_marker(x, y) up to the flush: write, advance, reload, draw
set_marker(c, working, rows, x, y, reachable) ==
    set_marker_landmark(c, working, current_landmark_object(c, working),
                        rows, x, y, reachable)

NavKeys == {"a", "d", "z", "c", "/", "*", "+", "-"}

\* the index assignment of onkeypress stopping at the ends of the axis
nav_index_clamped(key, c) ==
    LET up(i, n)   == IF i + 1 > n - 1 THEN n - 1 ELSE i + 1
        down(i, n) == IF i - 1 < 0 THEN 0 ELSE i - 1
    IN CASE key = "a" -> [c EXCEPT !.i_kp = down(c.i_kp, Len(avail_landmarks))]
         [] key = "d" -> [c EXCEPT !.i_kp = up(c.i_kp, Len(avail_landmarks))]
         [] key = "z" -> [c EXCEPT !.i_event = down(c.i_event, Len(event_names))]
         [] key = "c" -> [c EXCEPT !.i_event = up(c.i_event, Len(event_names))]
         [] key = "/" -> [c EXCEPT !.i_cam = down(c.i_cam, Len(cam_ids))]
         [] key = "*" -> [c EXCEPT !.i_cam = up(c.i_cam, Len(cam_ids))]
         [] key = "+" -> [c EXCEPT !.i_frame = up(c.i_frame, Len(rel_frames(c)))]
         [] key = "-" -> [c EXCEPT !.i_frame = down(c.i_frame, Len(rel_frames(c)))]

\* the index assignment of onkeypress going to the first frame of the event
\* when the event changes
nav_index_resets_frame(key, c) ==
    CASE key = "a" -> [c EXCEPT !.i_kp = (c.i_kp - 1) % Len(avail_landmarks)]
      [] key = "d" -> [c EXCEPT !.i_kp = (c.i_kp + 1) % Len(avail_landmarks)]
      [] key = "z" -> [c EXCEPT !.i_event = (c.i_event - 1) % Len(event_names),
                                !.i_frame = 0]
      [] key = "c" -> [c EXCEPT !.i_event = (c.i_event + 1) % Len(event_names),
                                !.i_frame = 0]
      [] key = "/" -> [c EXCEPT !.i_cam = (c.i_cam - 1) % Len(cam_ids)]
      [] key = "*" -> [c EXCEPT !.i_cam = (c.i_cam + 1) % Len(cam_ids)]
      [] key = "+" -> [c EXCEPT !.i_frame = (c.i_frame + 1) % Len(rel_frames(c))]
      [] key = "-" -> [c EXCEPT !.i_frame = (c.i_frame - 1) % Len(rel_frames(c))]

\* onkeypress: the index assignment of the key's branch
nav_index(key, c) ==
    CASE key = "a" -> [c EXCEPT !.i_kp = (c.i_kp - 1) % Len(avail_landmarks)]
      [] key = "d" -> [c EXCEPT !.i_kp = (c.i_kp + 1) % Len(avail_landmarks)]
      [] key = "z" -> [c EXCEPT !.i_event = (c.i_event - 1) % Len(event_names)]
      [] key = "c" -> [c EXCEPT !.i_event = (c.i_event + 1) % Len(event_names)]
      [] key = "/" -> [c EXCEPT !.i_cam = (c.i_cam - 1) % Len(cam_ids)]
      [] key = "*" -> [c EXCEPT !.i_cam = (c.i_cam + 1) % Len(cam_ids)]
      [] key = "+" -> [c EXCEPT !.i_frame = (c.i_frame + 1) % Len(rel_frames(c))]
      [] key = "-" -> [c EXCEPT !.i_frame = (c.i_frame - 1) % Len(rel_frames(c))]

\* onkeypress after load_markers: _draw_frame up to the flush
onkeypress_draw(working, nc, lm, draw) ==
    IF lm.err # "none"
    THEN [status |-> lm.err, cur |-> nc, markers |-> working, is_drawing |-> TRUE]
    ELSE [status |-> IF draw # "none" THEN draw ELSE "flush",
          cur |-> nc, markers |-> lm.markers, is_drawing |-> TRUE]

\* onkeypress with the cursor nc its key gave: busy flag, reload, draw
onkeypress_moved(working, rows, nc) ==
    onkeypress_draw(working, nc, load_markers(nc, rows), get_image_paths(nc))

\* onkeypress without the test of the busy flag
onkeypress_no_guard(key, c, working, rows, busy) ==
    IF key \notin NavKeys
    THEN [status |-> "ignored", cur |-> c, markers |-> working, is_drawing |-> busy]
    ELSE onkeypress_moved(working, rows, nav_index(key, c))

\* onkeypress(key) up to the flush: guard, index, busy flag, reload, draw
onkeypress(key, c, working, rows, busy) ==
    IF busy
    THEN [status |-> "busy", cur |-> c, markers |-> working, is_drawing |-> busy]
    ELSE IF key \notin NavKeys
    THEN [status |-> "ignored", cur |-> c, markers |-> working, is_drawing |-> busy]
    ELSE onkeypress_moved(working, rows, nav_index(key, c))

(***************************************************************************)
(* The state machine                                                       *)
(***************************************************************************)
Cursor0 == [i_frame |-> 0, i_event |-> 0, i_kp |-> 0, i_cam |-> 0]

\* no sibling lookup made yet, the index built from the log
NoSib == [log |-> CsvRows, done |-> FALSE, err |-> "none", prev |-> {}, next |-> {}]

NoReply == [op |-> "none", subject |-> subject_id, err |-> "none", value |-> <<>>]

NoWrap == [key |-> "a", start |-> Cursor0, cur |-> Cursor0, count |-> 0]

\* LabellerApp.__init__: all indices 0, the working set loaded, nothing drawn yet
InitSession ==
    /\ i_kp = 0
    /\ i_event = 0
    /\ i_frame = 0
    /\ i_cam = 0
    /\ db = {}
    /\ markers = load_markers(Cursor0, {}).markers
    /\ is_drawing = FALSE
    /\ stack = <<>>
    /\ outcome = [op |-> "init", status |-> "ok", wrote |-> "none", probes |-> 0]
    /\ reply = NoReply
    /\ tour = <<Cursor0>>

\* the catalog is ImageRepo over the log: every listed frame resolves
Init ==
    /\ absent = {}
    /\ InitSession
    /\ wrap = NoWrap
    /\ catalog = Catalog0(event_keys)
    /\ sib = NoSib

\* a catalog that reports up to MaxAbsent listed frames as absent; the frame
\* of the initial position resolves, or __init__ fails in load_image
InitAbsent ==
    /\ absent \in {S \in SUBSET LogFrames :
                     /\ Cardinality(S) <= MaxAbsent
                     /\ <<event_names[1], get_rel_frames(event_names[1])[1]>> \notin S}
    /\ InitSession
    /\ wrap = NoWrap
    /\ catalog = Catalog0(event_keys)
    /\ sib = NoSib

\* key_press_event -> onkeypress
KeyPress(key) ==
    /\ Len(stack) < MaxDepth
    /\ \E r \in {onkeypress(key, Cursor, markers, db, is_drawing)} :
          /\ i_kp' = r.cur.i_kp
          /\ i_event' = r.cur.i_event
          /\ i_frame' = r.cur.i_frame
          /\ i_cam' = r.cur.i_cam
          /\ markers' = r.markers
          /\ is_drawing' = r.is_drawing
          /\ stack' = IF r.status = "flush" THEN Append(stack, "key") ELSE stack
          /\ outcome' = [op |-> "key", status |-> r.status, wrote |-> "none",
                         probes |-> 0]
    /\ UNCHANGED <<db, absent, wrap, catalog, reply, sib, tour>>

\* button_press_event -> onclick -> _set_marker(xdata, ydata): button 1 in
\* the left pane; the store is reachable or not
Click(x, y, reachable) ==
    /\ Len(stack) < MaxDepth
    /\ \E r \in {set_marker(Cursor, markers, db, x, y, reachable)} :
          /\ Cardinality(r.db) <= MaxMarkers
          /\ i_kp' = r.cur.i_kp
          /\ i_event' = r.cur.i_event
          /\ i_frame' = r.cur.i_frame
          /\ i_cam' = r.cur.i_cam
          /\ markers' = r.markers
          /\ db' = r.db
          /\ stack' = IF r.status = "flush" THEN Append(stack, "click") ELSE stack
          /\ outcome' = [op |-> "click", status |-> r.status, wrote |-> r.wrote,
                         probes |-> r.probes]
    /\ UNCHANGED <<is_drawing, absent, wrap, catalog, reply, sib, tour>>

\* the innermost suspended handler runs from the flush to its end:
\* _draw_frame draws, and onkeypress clears the busy flag
Return ==
    /\ stack # <<>>
    /\ stack' = SubSeq(stack, 1, Len(stack) - 1)
    /\ is_drawing' = IF stack[Len(stack)] = "key" THEN FALSE ELSE is_drawing
    /\ outcome' = [op |-> "return", status |-> "ok", wrote |-> "none", probes |-> 0]
    /\ UNCHANGED <<i_kp, i_event, i_frame, i_cam, markers, db, absent, wrap,
                   catalog, reply, sib, tour>>

Next ==
    \/ \E key \in NavKeys : KeyPress(key)
    \/ \E xy \in Coords : \E reachable \in BOOLEAN : Click(xy[1], xy[2], reachable)
    \/ Return

Spec == Init /\ [][Next]_vars

SpecAbsent == InitAbsent /\ [][Next]_vars

(***************************************************************************)
(* The index arithmetic of onkeypress on its own: one key applied to a     *)
(* cursor as many times as its axis is long.                               *)
(***************************************************************************)
ValidCursors ==
    {c \in [i_frame : 0..(MaxFrames - 1), i_event : 0..(Len(event_names) - 1),
            i_kp : 0..(Len(avail_landmarks) - 1), i_cam : 0..(Len(cam_ids) - 1)] :
       ~rel_frame_raises(c)}

\* the length of the axis the key steps along, at cursor c
AxisSize(key, c) ==
    CASE key \in {"a", "d"} -> Len(avail_landmarks)
      [] key \in {"z", "c"} -> Len(event_names)
      [] key \in {"/", "*"} -> Len(cam_ids)
      [] key \in {"+", "-"} -> Len(rel_frames(c))

\* the index of the axis the key steps along
AxisIndex(key, c) ==
    CASE key \in {"a", "d"} -> c.i_kp
      [] key \in {"z", "c"} -> c.i_event
      [] key \in {"/", "*"} -> c.i_cam
      [] key \in {"+", "-"} -> c.i_frame

InitWrap ==
    /\ absent = {}
    /\ InitSession
    /\ wrap \in {[key |-> k, start |-> c, cur |-> c, count |-> 0] :
                   k \in NavKeys, c \in ValidCursors}
    /\ catalog = Catalog0(event_keys)
    /\ sib = NoSib

WrapStep ==
    /\ wrap.count < AxisSize(wrap.key, wrap.start)
    /\ wrap' = [wrap EXCEPT !.cur = nav_index(wrap.key, wrap.cur), !.count = @ + 1]
    /\ UNCHANGED <<i_kp, i_event, i_frame, i_cam, markers, is_drawing, db, absent,
                   stack, outcome, catalog, reply, sib, tour>>

SpecWrap == InitWrap /\ [][WrapStep]_vars

(***************************************************************************)
(* The catalog on its own: queries with arguments the log may not hold.    *)
(***************************************************************************)
\* LabellerApp.__init__ for (s, t), up to load_markers: FrameLookup iterates
\* get_all_frames twice, then get_events gives event_names; with no event
\* _current_event_name raises Exception("Invalid event index")
open_session(cat, s, t) ==
    IF query_get_events(touch_trial(cat, s, t), s, t).err # "none"
    THEN [err   |-> query_get_events(touch_trial(cat, s, t), s, t).err,
          value |-> <<>>, cat |-> touch_trial(cat, s, t)]
    ELSE [err   |-> IF trial_keys(cat, s, t) = <<>> THEN "Exception" ELSE "none",
          value |-> query_get_events(touch_trial(cat, s, t), s, t).value,
          cat   |-> touch_trial(cat, s, t)]

Answer(op, s, r) ==
    /\ reply' = [op |-> op, subject |-> s, err |-> r.err, value |-> r.value]
    /\ catalog' = r.cat
    /\ UNCHANGED <<i_kp, i_event, i_frame, i_cam, markers, is_drawing, db, absent,
                   stack, outcome, wrap, sib, tour>>

QueryEvents(s, t) == Answer("get_events", s, query_get_events(catalog, s, t))

QueryAllFrames(s, t) == Answer("get_all_frames", s, query_get_all_frames(catalog, s, t))

QueryRelFrames(s, t, e) ==
    Answer("get_rel_frames", s, query_get_rel_frames(catalog, s, t, e))

QueryFrame(s, t, e, rel) == Answer("get_frame", s, query_get_frame(catalog, s, t, e, rel))

OpenSession(s, t) == Answer("open", s, open_session(catalog, s, t))

NextCatalog ==
    \E s \in SubjectArgs : \E t \in TrialArgs :
        \/ QueryEvents(s, t)
        \/ QueryAllFrames(s, t)
        \/ \E k \in 1..Len(EventArgSeq) : QueryRelFrames(s, t, EventArgSeq[k])
        \/ \E k \in 1..Len(EventArgSeq) : \E rel \in RelArgs :
              QueryFrame(s, t, EventArgSeq[k], rel)
        \/ OpenSession(s, t)

SpecCatalog == Init /\ [][NextCatalog]_vars

(***************************************************************************)
(* get_events on its own: a log whose (subject, trial) has any sequence of *)
(* up to MaxEvents distinct events of EventPool.                           *)
(***************************************************************************)
EventPool == {"release", "rltd", "bltd", "bltd0", "unknownX", "unknownY"}

EventLogs ==
    {q \in UNION {[1..n -> EventPool] : n \in 1..MaxEvents} :
        \A i \in 1..Len(q) : \A j \in 1..Len(q) : q[i] = q[j] => i = j}

InitEvents ==
    /\ absent = {}
    /\ InitSession
    /\ wrap = NoWrap
    /\ catalog \in {Catalog0(q) : q \in EventLogs}
    /\ sib = NoSib

SpecEvents == InitEvents /\ [][QueryEvents(subject_id, trial_id)]_vars

(***************************************************************************)
(* _sibling_frame_objects on its own: a log whose frames follow each other *)
(* at 1 or 2 absolute frames, a store of up to MaxMarkers markers of       *)
(* positions of the log, and a cursor within bounds.                       *)
(***************************************************************************)
\* the frames of the log in the order of time: event by event
FrameSeq ==
    LET of(e) == [k \in 1..Len(rel_frames_table[e]) |-> <<e, rel_frames_table[e][k]>>]
    IN of(event_names[1]) \o of(event_names[2])

\* the absolute frame of the k-th frame, the steps between frames being gaps
RECURSIVE AbsAt(_, _)
AbsAt(gaps, k) == IF k = 1 THEN LogFirstAbs(event_names[1])
                  ELSE AbsAt(gaps, k - 1) + gaps[k - 1]

\* the log with the absolute frames the gaps give
LogWithGaps(gaps) ==
    [k \in 1..Len(CsvRows) |->
        [CsvRows[k] EXCEPT !.frame =
            AbsAt(gaps, CHOOSE j \in 1..Len(FrameSeq) :
                          FrameSeq[j] = <<CsvRows[k].event_name, CsvRows[k].rel_frame>>)]]

SiblingLogs == {LogWithGaps(g) : g \in [1..(Len(FrameSeq) - 1) -> 1..MaxGap]}

\* the rows commits can have stored: one per position, ids in any order
SiblingStores ==
    LET keys == {<<FrameSeq[j], cam_ids[k], avail_landmarks[l]>> :
                   j \in 1..Len(FrameSeq), k \in 1..Len(cam_ids),
                   l \in 1..Len(avail_landmarks)}
        row(id, key) == [id |-> id, subject_id |-> subject_id, trial_id |-> trial_id,
                         event |-> key[1][1], relative_frame |-> key[1][2],
                         cam_id |-> key[2], landmark |-> key[3], x |-> 101, y |-> 90]
    IN {{row(id, f[id]) : id \in DOMAIN f} :
          f \in {g \in UNION {[1..n -> keys] : n \in 0..MaxMarkers} :
                   \A i \in DOMAIN g : \A j \in DOMAIN g : g[i] = g[j] => i = j}}

InitSibling ==
    /\ absent = {}
    /\ \E c \in ValidCursors :
          /\ i_kp = c.i_kp
          /\ i_event = c.i_event
          /\ i_frame = c.i_frame
          /\ i_cam = c.i_cam
    /\ db \in SiblingStores
    /\ markers = load_markers(Cursor, db).markers
    /\ is_drawing = FALSE
    /\ stack = <<>>
    /\ outcome = [op |-> "init", status |-> "ok", wrote |-> "none", probes |-> 0]
    /\ reply = NoReply
    /\ tour = <<Cursor0>>
    /\ wrap = NoWrap
    /\ catalog = Catalog0(event_keys)
    /\ sib \in {[NoSib EXCEPT !.log = q] : q \in SiblingLogs}

\* _draw_frame: sibling_lms = self._sibling_frame_objects()
SiblingStep ==
    /\ ~sib.done
    /\ \E r \in {sibling_frame_objects(sib.log, Cursor, db)} :
          sib' = [sib EXCEPT !.done = TRUE, !.err = r.err, !.prev = r.prev,
                             !.next = r.next]
    /\ UNCHANGED <<i_kp, i_event, i_frame, i_cam, markers, is_drawing, db, absent,
                   stack, outcome, wrap, catalog, reply, tour>>

SpecSibling == InitSibling /\ [][SiblingStep]_vars

(***************************************************************************)
(* Commits only, from the initial state with every frame present: each     *)
(* commit runs to its end before the next (its flush dispatches nothing),  *)
(* for as many commits as the log has positions.                           *)
(***************************************************************************)
\* button_press_event -> onclick -> _set_marker(x, y), to the end of
\* _draw_frame
Commit(x, y) ==
    /\ stack = <<>>
    /\ Len(tour) <= Cardinality(ValidCursors)
    /\ \E r \in {set_marker(Cursor, markers, db, x, y, TRUE)} :
          /\ i_kp' = r.cur.i_kp
          /\ i_event' = r.cur.i_event
          /\ i_frame' = r.cur.i_frame
          /\ i_cam' = r.cur.i_cam
          /\ markers' = r.markers
          /\ db' = r.db
          /\ outcome' = [op |-> "commit",
                         status |-> IF r.status = "flush" THEN "ok" ELSE r.status,
                         wrote |-> r.wrote, probes |-> r.probes]
          /\ tour' = Append(tour, r.cur)
    /\ UNCHANGED <<is_drawing, absent, stack, wrap, catalog, reply, sib>>

NextTour == \E xy \in Coords : Commit(xy[1], xy[2])

SpecTour == Init /\ [][NextTour]_vars

(***************************************************************************)
(* Vocabulary of the properties                                            *)
(***************************************************************************)
\* current_position(): the 6-tuple of the cursor (where its frame exists)
Position(c) ==
    <<subject_id, trial_id, current_event_name(c), current_rel_frame(c),
      current_cam_id(c), current_landmark(c)>>

RowsAt(rows, key) == {r \in rows : UniqueKey(r) = key}

StorageErrors == {"IntegrityError", "OperationalError"}

\* the absolute frame of the cursor's frame in the indexed log
SibAbs ==
    LET k == CHOOSE j \in 1..Len(sib.log) :
                 /\ sib.log[j].event_name = current_event_name(Cursor)
                 /\ sib.log[j].rel_frame = current_rel_frame(Cursor)
    IN sib.log[k].frame

\* the stored markers of the current camera and landmark whose frame is
\* `off` absolute frames from the cursor's
SibMarkersAt(off) ==
    {m \in db :
        /\ m.cam_id = current_cam_id(Cursor)
        /\ m.landmark = current_landmark(Cursor)
        /\ \E k \in 1..Len(sib.log) :
              /\ sib.log[k].event_name = m.event
              /\ sib.log[k].rel_frame = m.relative_frame
              /\ sib.log[k].frame = SibAbs + off}

(***************************************************************************)
(* C1: in every reachable state the marker store holds at most one marker  *)
(* per 6-tuple (subject, trial, event, relative_frame, camera, landmark).  *)
(***************************************************************************)
C1_OneMarkerPerTuple ==
    \A r1 \in db : \A r2 \in db : UniqueKey(r1) = UniqueKey(r2) => r1 = r2

\* an insert for a tuple the store already holds was attempted and refused
C1_Witness ==
    /\ outcome.op = "click"
    /\ outcome.status = "IntegrityError"
    /\ RowsAt(db, Position(Cursor)) # {}

(***************************************************************************)
(* C2: every commit at a position the session has navigated to (the       *)
(* working set is the one navigation loads for the position, the store is  *)
(* reachable) succeeds in writing; afterwards exactly one marker exists    *)
(* for the position's tuple and its (x, y) are those of the commit; the    *)
(* first commit inserts and a later one updates the same row (same id) in  *)
(* place.                                                                  *)
(***************************************************************************)
C2_UpsertLastWriteWins ==
    [][\A xy \in Coords :
         (/\ outcome'.op = "click"
          /\ Click(xy[1], xy[2], TRUE)
          /\ ~rel_frame_raises(Cursor)
          /\ markers = load_markers(Cursor, db).markers) =>
            LET key    == Position(Cursor)
                before == RowsAt(db, key)
                after  == RowsAt(db', key)
            IN /\ outcome'.wrote # "none"
               /\ Cardinality(after) = 1
               /\ \A r \in after : r.x = xy[1] /\ r.y = xy[2]
               /\ before = {} =>
                    /\ outcome'.wrote = "insert"
                    /\ Cardinality(db') = Cardinality(db) + 1
               /\ before # {} =>
                    /\ outcome'.wrote = "update"
                    /\ {r.id : r \in after} = {r.id : r \in before}
                    /\ Cardinality(db') = Cardinality(db)]_vars

\* a later commit at a position updated the one row of its tuple
C2_Witness ==
    /\ outcome.op = "click"
    /\ outcome.wrote = "update"
    /\ outcome.status = "flush"
    /\ Cardinality(db) = 1

(***************************************************************************)
(* C3: every index of the cursor is within the bounds of its axis; i_frame *)
(* is below the number of relative frames of the event i_event selects.    *)
(***************************************************************************)
C3_IndicesInBounds ==
    /\ i_kp \in 0..(Len(avail_landmarks) - 1)
    /\ i_event \in 0..(Len(event_names) - 1)
    /\ i_cam \in 0..(Len(cam_ids) - 1)
    /\ i_frame \in 0..(Len(rel_frames(Cursor)) - 1)

C5_ExhaustionKeepsCursor ==
    [][\A xy \in Coords :
         LET cand == probe_frame(Cursor)
         IN (outcome'.wrote # "none" /\ Click(xy[1], xy[2], TRUE)) =>
               /\ has_frame(cand.i_event, cand.i_frame) = "no"
                  => /\ outcome'.status = "Exception"
                     /\ outcome'.probes <= limit
                     /\ Cursor' = Cursor
               /\ outcome'.status = "Exception"
                  => /\ Cursor' = Cursor
                     /\ outcome'.probes = limit]_vars

\* an advance has run out of probes
C5_Witness ==
    /\ outcome.op = "click"
    /\ outcome.status = "Exception"
    /\ outcome.probes = limit
    /\ ~rel_frame_raises(Cursor)
    /\ LET cand == probe_frame(Cursor)
       IN has_frame(cand.i_event, cand.i_frame) = "no"

C7_FailedWriteChangesNothing ==
    [][\A xy \in Coords : \A reachable \in BOOLEAN :
         (/\ outcome'.op = "click"
          /\ Click(xy[1], xy[2], reachable)
          /\ \/ current_landmark_object(Cursor, markers) # {}
             \/ ~rel_frame_raises(Cursor)
          /\ \/ ~reachable
             \/ /\ current_landmark_object(Cursor, markers) = {}
                /\ RowsAt(db, Position(Cursor)) # {})
         => /\ outcome'.status \in StorageErrors
            /\ outcome'.status = "IntegrityError" <=> reachable
            /\ Cursor' = Cursor
            /\ markers' = markers
            /\ db' = db
            /\ stack' = stack]_vars

\* a commit on a store that holds markers has ended with a storage error
C7_Witness ==
    /\ outcome.op = "click"
    /\ outcome.status \in StorageErrors
    /\ db # {}
    /\ markers # {}

(***************************************************************************)
(* C8: in no reachable state are two user actions (navigate, commit) in    *)
(* progress at once.                                                       *)
(***************************************************************************)
C8_OneActionAtATime == Len(stack) <= 1

(***************************************************************************)
(* C9: with all frames present a successful commit moves the cursor to the *)
(* mixed-radix successor over (frame, event, landmark, camera): frame      *)
(* advances by 1 modulo the frame count of the event; event advances       *)
(* exactly when frame wrapped to 0, landmark exactly when event wrapped    *)
(* too, camera exactly when landmark wrapped too; from (last frame,        *)
(* event 0, landmark 0, camera 0) the event becomes 1 and the frame 0.     *)
(***************************************************************************)
C9_OdometerSuccessor ==
    [][\A xy \in Coords :
         (/\ outcome'.op = "click" /\ outcome'.status = "flush" /\ absent = {}
          /\ Click(xy[1], xy[2], TRUE)) =>
            LET f  == (i_frame + 1) % Len(rel_frames(Cursor))
                e  == IF f = 0 THEN (i_event + 1) % Len(event_names) ELSE i_event
                kp == IF f = 0 /\ e = 0 THEN (i_kp + 1) % Len(avail_landmarks)
                      ELSE i_kp
                cm == IF f = 0 /\ e = 0 /\ kp = 0 THEN (i_cam + 1) % Len(cam_ids)
                      ELSE i_cam
            IN /\ i_frame' = f
               /\ i_event' = e
               /\ i_kp' = kp
               /\ i_cam' = cm
               /\ (/\ i_frame = Len(rel_frames(Cursor)) - 1
                   /\ i_event = 0 /\ i_kp = 0 /\ i_cam = 0)
                  => (i_event' = 1 /\ i_frame' = 0 /\ i_kp' = 0 /\ i_cam' = 0)]_vars

\* a commit has carried the odometer over every axis: the camera advanced
C9_Witness ==
    /\ outcome.op = "click"
    /\ outcome.status = "flush"
    /\ absent = {}
    /\ i_frame = 0 /\ i_event = 0 /\ i_kp = 0 /\ i_cam = 1

(***************************************************************************)
(* C10: a +1 key (and a -1 key) applied as many times as its axis is long  *)
(* brings the axis index back to where it started; the index stays within  *)
(* the axis; +1 from the last index gives 0 and -1 from 0 gives the last   *)
(* index (it wraps, it does not clamp).                                    *)
(***************************************************************************)
C10_Wraparound ==
    LET size  == AxisSize(wrap.key, wrap.start)
        first == AxisIndex(wrap.key, wrap.start)
        now   == AxisIndex(wrap.key, wrap.cur)
        delta == IF wrap.key \in {"d", "c", "*", "+"} THEN 1 ELSE -1
    IN /\ now \in 0..(size - 1)
       /\ wrap.count = size => now = first
       /\ (wrap.count = 1 /\ delta = 1 /\ first = size - 1) => now = 0
       /\ (wrap.count = 1 /\ delta = -1 /\ first = 0) => now = size - 1
       /\ \A k \in 0..size :
            wrap.count = k => (now - first - delta * k) % size = 0

\* the frame key + has gone once around an event of more than one frame
C10_Witness ==
    /\ wrap.key = "+"
    /\ wrap.count = AxisSize(wrap.key, wrap.start)
    /\ wrap.count > 1
    /\ wrap.cur = wrap.start

(***************************************************************************)
(* C13: get_events returns the events of the (subject, trial) as a         *)
(* permutation ordered by the priority list rltd, bltd0, bltd, release;    *)
(* events outside the list come after every listed event and keep their    *)
(* source order; {release, rltd, bltd, unknownX} gives rltd, bltd,         *)
(* release, unknownX.                                                      *)
(***************************************************************************)
C13_EventsInPriorityOrder ==
    reply.op = "get_events" =>
        LET src       == catalog.log
            out       == reply.value
            prio      == <<"rltd", "bltd0", "bltd", "release">>
            listed(e) == \E k \in 1..Len(prio) : prio[k] = e
            pos(q, e) == CHOOSE k \in 1..Len(q) : q[k] = e
        IN /\ reply.err = "none"
           /\ Len(out) = Len(src)
           /\ {out[k] : k \in 1..Len(out)} = {src[k] : k \in 1..Len(src)}
           /\ \A i \in 1..Len(out) : \A j \in 1..Len(out) :
                 i < j =>
                   /\ (listed(out[i]) /\ listed(out[j]))
                         => pos(prio, out[i]) < pos(prio, out[j])
                   /\ ~listed(out[i]) => ~listed(out[j])
                   /\ (~listed(out[i]) /\ ~listed(out[j]))
                         => pos(src, out[i]) < pos(src, out[j])
           /\ src = <<"release", "rltd", "bltd", "unknownX">>
                 => out = <<"rltd", "bltd", "release", "unknownX">>

\* get_events has answered for the log of the example
C13_Witness ==
    /\ reply.op = "get_events"
    /\ catalog.log = <<"release", "rltd", "bltd", "unknownX">>
    /\ reply.value = <<"rltd", "bltd", "release", "unknownX">>

(***************************************************************************)
(* C14: get_events for a subject that is not in the source log fails with  *)
(* MissingSubjectException, whichever queries were issued for the subject  *)
(* before; opening a session for such a subject fails with it too.         *)
(***************************************************************************)
C14_UnknownSubjectRaises ==
    (reply.op \in {"get_events", "open"} /\ reply.subject # subject_id)
        => reply.err = "MissingSubjectException"

(***************************************************************************)
(* C15: no catalog query changes the subjects, trials, events or frames    *)
(* the catalog holds.                                                      *)
(***************************************************************************)
C15_CatalogReadOnly ==
    [][/\ catalog'.subjects = catalog.subjects
       /\ catalog'.trials = catalog.trials
       /\ catalog'.events = catalog.events
       /\ catalog'.log = catalog.log]_vars

(***************************************************************************)
(* C16: a marker is never deleted: a row of the store is, after every step *)
(* of the session, still a row with the same id and the same 6-tuple; only *)
(* its x and y may have changed.                                           *)
(***************************************************************************)
C16_MarkersNeverDeleted ==
    [][\A r \in db : \E q \in db' : q.id = r.id /\ UniqueKey(q) = UniqueKey(r)]_vars

\* a commit has changed the coordinates of one of the rows of a full store
C16_Witness ==
    /\ outcome.op = "click"
    /\ outcome.wrote = "update"
    /\ Cardinality(db) = MaxMarkers
    /\ \E r \in db : \E q \in db : r.x # q.x

(***************************************************************************)
(* C17: the marker _current_landmark_object returns has the 6-tuple of the *)
(* current position, and at most one marker of the working set matches; a  *)
(* marker is not returned when the cursor is at no position.               *)
(***************************************************************************)
C17_MatchIsCurrentPosition ==
    /\ Cardinality({m \in markers : match_landmark(Cursor, m)}) <= 1
    /\ \A m \in current_landmark_object(Cursor, markers) :
          /\ ~rel_frame_raises(Cursor)
          /\ UniqueKey(m) = Position(Cursor)

(***************************************************************************)
(* C18: the busy guard is set only while a navigation is in progress: no   *)
(* state is reached in which no navigation is in progress and the guard is *)
(* set, so that every further key press is rejected as busy.               *)
(***************************************************************************)
C18_BusyGuardReleased ==
    is_drawing => \E k \in 1..Len(stack) : stack[k] = "key"

(***************************************************************************)
(* C11: when the frame at absolute offset -1 has a marker of the current   *)
(* camera and landmark, the prev sibling is that marker, whatever the      *)
(* offset -2 has; the same for next and the offsets +1, +2.                *)
(***************************************************************************)
C11_NearestSiblingWins ==
    sib.done =>
        /\ SibMarkersAt(-1) # {} => sib.prev = SibMarkersAt(-1)
        /\ SibMarkersAt(1) # {} => sib.next = SibMarkersAt(1)

\* both offsets -1 and -2 had a marker and prev is the one of offset -1
C11_Witness ==
    /\ sib.done
    /\ SibMarkersAt(-1) # {}
    /\ SibMarkersAt(-2) # {}
    /\ sib.prev = SibMarkersAt(-1)

(***************************************************************************)
(* C12: when there is no marker of the current camera and landmark at      *)
(* offset -1 (no frame there, or a frame without such a marker) and there  *)
(* is one at offset -2, the prev sibling is the marker of offset -2; the   *)
(* same for next and the offsets +1, +2.                                   *)
(***************************************************************************)
C12_FallsBackToSecondOffset ==
    sib.done =>
        /\ (SibMarkersAt(-1) = {} /\ SibMarkersAt(-2) # {})
              => sib.prev = SibMarkersAt(-2)
        /\ (SibMarkersAt(1) = {} /\ SibMarkersAt(2) # {})
              => sib.next = SibMarkersAt(2)

(***************************************************************************)
(* C19: at a cursor position neither lookup fails: the sibling lookup      *)
(* returns without prev (next) when no marker is found at the offsets -1,  *)
(* -2 (+1, +2), also when the index has no frame there, and                *)
(* _current_landmark_object returns no marker when none is stored for the  *)
(* position.                                                               *)
(***************************************************************************)
C19_LookupMissesAreEmpty ==
    /\ sib.done =>
          /\ sib.err = "none"
          /\ (SibMarkersAt(-1) = {} /\ SibMarkersAt(-2) = {}) => sib.prev = {}
          /\ (SibMarkersAt(1) = {} /\ SibMarkersAt(2) = {}) => sib.next = {}
    /\ RowsAt(db, Position(Cursor)) = {}
          => current_landmark_object(Cursor, markers) = {}

\* a lookup from the first frame of the log, on a store that holds markers
\* but none for the position and none for a sibling: both results are empty
C19_Witness ==
    /\ sib.done
    /\ sib.err = "none"
    /\ by_frame(sib.log, SibAbs - 1) = <<>>
    /\ by_frame(sib.log, SibAbs - 2) = <<>>
    /\ db # {}
    /\ sib.prev = {}
    /\ sib.next = {}
    /\ current_landmark_object(Cursor, markers) = {}

(***************************************************************************)
(* C20: every marker the sibling lookup returns has the current camera and *)
(* the current landmark and is the marker of a frame of the log (of its    *)
(* own event, which may differ from the current one) whose absolute frame  *)
(* is 1 or 2 before the cursor's for prev, 1 or 2 after it for next.       *)
(***************************************************************************)
C20_SiblingsAreNeighbours ==
    sib.done =>
        /\ \A m \in sib.prev : m \in SibMarkersAt(-1) \cup SibMarkersAt(-2)
        /\ \A m \in sib.next : m \in SibMarkersAt(1) \cup SibMarkersAt(2)

\* the next sibling is a marker of another event, two absolute frames on
C20_Witness ==
    /\ sib.done
    /\ \E m \in sib.next :
          /\ m.event # current_event_name(Cursor)
          /\ m \in SibMarkersAt(2)

(***************************************************************************)
(* C21: a key press of an axis changes no index but the one of its axis    *)
(* (a, d: landmark; z, c: event; /, *: camera; +, -: frame) and leaves the *)
(* rows of the marker store as they are, in every state the session        *)
(* reaches, whether the handler ends, raises or is rejected.               *)
(***************************************************************************)
C21_NavigateMovesOneAxis ==
    [][\A key \in NavKeys :
         (outcome'.op = "key" /\ KeyPress(key)) =>
            /\ db' = db
            /\ key \notin {"a", "d"} => i_kp' = i_kp
            /\ key \notin {"z", "c"} => i_event' = i_event
            /\ key \notin {"/", "*"} => i_cam' = i_cam
            /\ key \notin {"+", "-"} => i_frame' = i_frame]_vars

\* a key press has been handled up to its flush with the cursor on the
\* second event and the second landmark, over a store that holds markers
C21_Witness ==
    /\ outcome.op = "key"
    /\ outcome.status = "flush"
    /\ i_event = 1
    /\ i_frame = 0
    /\ i_kp = 1
    /\ db # {}

(***************************************************************************)
(* C25: a key press that arrives while the busy flag is set is rejected    *)
(* and changes nothing: the four indices, the working set, the marker      *)
(* store, the busy flag and the handlers in progress are the ones before   *)
(* it, for the axis keys and for any other key.                            *)
(***************************************************************************)
C25_BusyKeyRejected ==
    [][/\ is_drawing =>
            \A key \in NavKeys \cup {"x"} :
               \E r \in {onkeypress(key, Cursor, markers, db, is_drawing)} :
                  /\ r.status = "busy"
                  /\ r.cur = Cursor
                  /\ r.markers = markers
                  /\ r.is_drawing
       /\ \A key \in NavKeys :
            (is_drawing /\ outcome'.op = "key" /\ KeyPress(key)) =>
               /\ outcome'.status = "busy"
               /\ Cursor' = Cursor
               /\ markers' = markers
               /\ db' = db
               /\ is_drawing'
               /\ stack' = stack]_vars

\* a key was rejected while a navigation was at its flush, off the initial
\* position and over a store that holds markers
C25_Witness ==
    /\ outcome.op = "key"
    /\ outcome.status = "busy"
    /\ is_drawing
    /\ stack # <<>>
    /\ Cursor # Cursor0
    /\ db # {}

(***************************************************************************)
(* C22: whenever no handler is in progress and the last one to end         *)
(* returned (initialisation included), the cursor is at a position and the *)
(* working set is the rows the store holds for the relative frame of that  *)
(* position.                                                               *)
(***************************************************************************)
C22_WorkingSetIsCurrent ==
    (stack = <<>> /\ outcome.status = "ok") =>
        /\ ~rel_frame_raises(Cursor)
        /\ markers = load_markers(Cursor, db).markers

(***************************************************************************)
(* C23: a commit that succeeds (store reachable, the handler reaches its   *)
(* flush) is made at a position of the cursor and changes the store in the *)
(* row of that position only: the row is inserted with (x, y) if the store *)
(* has none, else its x and y are set and its id kept; the rows of every   *)
(* other tuple are the ones before; the store grows by one row on the      *)
(* insert path and by none on the update path.                             *)
(***************************************************************************)
C23_CommitWritesCurrentRow ==
    [][\A xy \in Coords :
         (/\ outcome'.op = "click"
          /\ outcome'.status = "flush"
          /\ Click(xy[1], xy[2], TRUE)) =>
            /\ ~rel_frame_raises(Cursor)
            /\ LET key    == Position(Cursor)
                   before == RowsAt(db, key)
                   after  == RowsAt(db', key)
               IN /\ \A r \in db : UniqueKey(r) # key => r \in db'
                  /\ \A r \in db' : UniqueKey(r) # key => r \in db
                  /\ Cardinality(after) = 1
                  /\ \A r \in after : r.x = xy[1] /\ r.y = xy[2]
                  /\ before = {} =>
                       /\ outcome'.wrote = "insert"
                       /\ Cardinality(db') = Cardinality(db) + 1
                  /\ before # {} =>
                       /\ outcome'.wrote = "update"
                       /\ {r.id : r \in after} = {r.id : r \in before}
                       /\ Cardinality(db') = Cardinality(db)]_vars

(***************************************************************************)
(* C24: from the initial state, with every frame present and events of     *)
(* different frame counts, commits alone take the cursor through every     *)
(* (camera, landmark, event, frame of that event) once and then back to    *)
(* the initial position: the cycle has (sum of the events' frame counts) x *)
(* landmarks x cameras commits, every commit succeeds, and no position is  *)
(* skipped or seen twice within the cycle.                                 *)
(***************************************************************************)
C24_CommitsTourEveryPosition ==
    LET cycle == Len(FrameSeq) * Len(avail_landmarks) * Len(cam_ids)
    IN /\ tour[1] = Cursor0
       /\ tour[Len(tour)] = Cursor
       /\ outcome.op = "commit" => outcome.status = "ok"
       /\ \A i \in 1..Len(tour) : tour[i] \in ValidCursors
       /\ \A i \in 1..Len(tour) : \A j \in 1..Len(tour) :
             (i < j /\ j <= cycle) => tour[i] # tour[j]
       /\ Len(tour) > cycle =>
             /\ tour[cycle + 1] = Cursor0
             /\ {tour[i] : i \in 1..cycle} = ValidCursors

\* the commits have gone once around: the cursor is back at the initial
\* position and the store holds a marker for every position
C24_Witness ==
    /\ outcome.op = "commit"
    /\ Len(tour) = Len(FrameSeq) * Len(avail_landmarks) * Len(cam_ids) + 1
    /\ Cursor = Cursor0
    /\ Cardinality(db) = Len(tour) - 1
    /\ Len(rel_frames_table[event_names[1]]) # Len(rel_frames_table[event_names[2]])

====
